---- MODULE Spec2Model ----
(***************************************************************************)
(* Model of generator_helper: the generation/verification retry engine     *)
(* (subtask_gen.generator_runner), its reproducible random source          *)
(* (subtask_gen.ReproducibleRandom), the exception classes it sorts        *)
(* failures into (exceptions.py), the assertion helper                     *)
(* (subtask_gen.assert_testcase), the solution wrapper                     *)
(* (sol_dec.override_io) and the bulk writer (file_utils.write_testcases). *)
(***************************************************************************)
EXTENDS Integers, Sequences, FiniteSets, TLC

VARIABLES
    retry_limit,     \* generator_runner argument, shared by every call of the runner
    generator,       \* generator_runner argument: which generator function was passed
    verifier,        \* generator_runner argument: which verifier function was passed
    pc,              \* per call of runner: position in the body of runner
    testcase_index,  \* per call: the argument of runner
    retry_count,     \* per frame: local variable of runner
    rnd,             \* per frame: local variable of runner
    testcase,        \* per frame: local variable of runner
    answer,          \* per frame: local variable of runner
    outcome,         \* per call: how the call ended (return value or raised exception)
    genCalls,        \* per call: number of invocations of generator so far
    verCalls,        \* per call: number of invocations of verifier so far
    rejected,        \* per call: number of attempts that raised TestcaseInvalidError
    genArg,          \* per call: identity of the random source last passed to generator
    verArg,          \* per call: the text last passed to verifier
    genRet,          \* per call: the last normal return of generator
    verSeen,         \* per call: the last invocation of verifier
    built,           \* per call: identity and state of the random source at its construction
    rr,              \* a ReproducibleRandom instance under test
    firstOps,        \* the draw operations applied to rr right after construction
    firstVals,       \* the values those draws returned
    curOps,          \* the draw operations applied since the last back_to_initial()
    curVals,         \* the values those draws returned
    restores,        \* number of back_to_initial() calls so far
    rrBorn,          \* the state of rr captured when it was constructed
    assertPc,        \* position of the caller of assert_testcase
    assertArgs,      \* the arguments of the assert_testcase call and its call-site line
    assertResult,    \* how the assert_testcase call ended
    assertClause,    \* the except clause of runner that took what assert_testcase raised
    decorated,       \* what override_io(x) was called with and what it gave
    sys_stdin,       \* the stream sys.stdin is bound to
    sys_stdout,      \* the stream sys.stdout is bound to
    buffers,         \* per output stream: the text written to it so far
    nextStream,      \* number of StringIO objects created so far
    ioStack,         \* the wrapped calls in progress, outermost first
    ioCalls,         \* number of wrapped calls made so far
    rebinds,         \* number of assignments to sys.stdin or sys.stdout so far
    lastDone,        \* the wrapped call that ended last
    writerPc,        \* position in the body of write_testcases
    writerArgs,      \* the arguments write_testcases was called with
    folder,          \* local variable of write_testcases
    in_pattern,      \* local variable of write_testcases
    out_pattern,     \* local variable of write_testcases
    warnings,        \* the warnings issued by warn() so far
    dirs,            \* the directories that exist
    files,           \* the files of the folder: pairs of a name and the text it holds
    pairsDone,       \* number of iterations of the loop of write_testcases completed
    written,         \* the names passed to write_text so far, in order
    writerExc        \* the exception write_testcases ended with, if any

runnerVars == <<retry_limit, generator, verifier, pc, testcase_index, retry_count,
                rnd, testcase, answer, outcome, genCalls, verCalls, rejected,
                genArg, verArg, genRet, verSeen, built>>
randomVars == <<rr, firstOps, firstVals, curOps, curVals, restores, rrBorn>>
vars == <<retry_limit, generator, verifier, pc, testcase_index, retry_count,
          rnd, testcase, answer, outcome, genCalls, verCalls, rejected,
          genArg, verArg, genRet, verSeen, built, rr, firstOps, firstVals, curOps, curVals, restores,
          rrBorn, assertPc, assertArgs, assertResult, assertClause, decorated,
          sys_stdin, sys_stdout, buffers, nextStream, ioStack, ioCalls, rebinds,
          lastDone, writerPc, writerArgs, folder, in_pattern, out_pattern, warnings,
          dirs, files, pairsDone, written, writerExc>>
assertVars == <<assertPc, assertArgs, assertResult, assertClause>>
ioVars == <<decorated, sys_stdin, sys_stdout, buffers, nextStream, ioStack, ioCalls,
            rebinds, lastDone>>
writerVars == <<writerPc, writerArgs, folder, in_pattern, out_pattern, warnings,
                dirs, files, pairsDone, written, writerExc>>
adapterVars == <<assertVars, ioVars, writerVars>>

(* ------------------------------ bounds --------------------------------- *)

\* Cap on the generator invocations of one call of runner.
MaxAttempts == 3
\* Number of distinct internal states of the pseudo-random generator.
RndStates == 3
\* Cap on the draws between two back_to_initial() calls.
MaxDraws == 3
\* Cap on the back_to_initial() calls on one instance.
MaxRestores == 2
\* Cap on the wrapped calls made in one run.
MaxIoCalls == 2
\* Cap on the print() calls of one solution.
MaxWrites == 1
\* Cap on the number of pairs passed to write_testcases.
MaxPairs == 2

Calls == {1, 2}
Indices == {0, 1}
RetryLimits == -2 .. 2
Entropy == 0 .. (RndStates - 1)

(* --------------------------- random.Random ----------------------------- *)

\* An absent value (Python None) is the empty tuple, a present one a 1-tuple.
NoneVal == <<>>
Some(x) == <<x>>

\* One step of the underlying generator.
Advance(mt) == (mt + 1) % RndStates

\* Random.seed(a): a = None seeds from system entropy; gauss_next is cleared.
RandomSeed(seed, entropy) ==
    [mt |-> IF seed = NoneVal THEN entropy ELSE seed[1] % RndStates,
     gauss_next |-> NoneVal]

\* Random.getstate(): the internal state and gauss_next, as an immutable tuple.
getstate(r) == <<3, r.mt, r.gauss_next>>

\* Random.setstate(state).
setstate(r, state) == [r EXCEPT !.mt = state[2], !.gauss_next = state[3]]

\* Random.random(): one step; the value is the new internal state.
DrawRandom(r) ==
    [rnd |-> [r EXCEPT !.mt = Advance(r.mt)], value |-> Advance(r.mt)]

\* Random.randint(a, b): one step, reduced into a..b.
DrawRandint(r, a, b) ==
    [rnd |-> [r EXCEPT !.mt = Advance(r.mt)],
     value |-> a + (Advance(r.mt) % (b - a + 1))]

\* Random.gauss(): returns the cached gauss_next when there is one, else takes
\* two steps, returns one deviate and caches the other.
DrawGauss(r) ==
    IF r.gauss_next # NoneVal
    THEN [rnd |-> [r EXCEPT !.gauss_next = NoneVal], value |-> r.gauss_next[1]]
    ELSE LET u1 == Advance(r.mt)
             u2 == Advance(u1)
         IN [rnd |-> [r EXCEPT !.mt = u2,
                               !.gauss_next = Some(100 + u1 * RndStates + u2)],
             value |-> 200 + u1 * RndStates + u2]

DrawOps == {"random", "randint", "gauss"}

Draw(r, op) ==
    CASE op = "random" -> DrawRandom(r)
      [] op = "randint" -> DrawRandint(r, 1, 3)
      [] op = "gauss" -> DrawGauss(r)

(* ------------------------- ReproducibleRandom -------------------------- *)

\* ReproducibleRandom.__init__(seed): id is the identity of the new object.
ReproducibleRandom(seed, entropy, id) ==
    LET base == RandomSeed(seed, entropy)
    IN [id |-> id,
        mt |-> base.mt,
        gauss_next |-> base.gauss_next,
        seed |-> seed,
        initial_state |-> getstate(base)]

\* A plausible slip: resetting by re-seeding from the stored seed.
back_to_initial_reseed(r, entropy) ==
    LET base == RandomSeed(r.seed, entropy)
    IN [r EXCEPT !.mt = base.mt, !.gauss_next = base.gauss_next]

\* ReproducibleRandom.back_to_initial(); entropy is what the system would
\* supply if the method asked for it (it does not).
back_to_initial(r, entropy) == setstate(r, r.initial_state)

\* The value of a local variable of runner that is not bound yet.
NoRnd ==
    [id |-> <<0, 0>>, mt |-> 0, gauss_next |-> NoneVal, seed |-> NoneVal,
     initial_state |-> <<3, 0, NoneVal>>]

(* ----------------------------- exceptions ------------------------------ *)

TestcaseInvalidError == "TestcaseInvalidError"
\* func_timeout.FunctionTimedOut under its new name; it derives from
\* BaseException, not from Exception.
TimeLimitExceededError == "TimeLimitExceededError"
\* isinstance(e, Exception)
IsException(e) == e \in {TestcaseInvalidError, "ZeroDivisionError"}

(* ---------------------- generator and verifier ------------------------- *)

NoText == <<>>
NoAnswer == <<>>
Normal == "normal"

Generators == {"simple_generator", "picky_generator", "buggy_generator"}
Verifiers == {"accept", "reject", "odd_only", "crash", "strict", "hanging",
              "interrupted"}

\* generator(testcase_index, rnd): every generator draws randint(1, 3) as
\* simple_generator does and builds the text "<index> <draw>"; the picky one
\* rejects a draw of 3 with assert_testcase, the buggy one fails on a draw of 3.
generator_call(g, idx, r) ==
    LET d == DrawRandint(r, 1, 3)
        raised == CASE g = "picky_generator" /\ d.value = 3 -> TestcaseInvalidError
                    [] g = "buggy_generator" /\ d.value = 3 -> "ZeroDivisionError"
                    [] OTHER -> Normal
    IN [raised |-> raised,
        value |-> IF raised = Normal THEN <<idx, d.value>> ELSE NoText,
        rnd |-> d.rnd]

\* The answer a verifier returns for an accepted text.
AnswerOf(idx, text) == <<"answer", idx, text>>

\* verifier(testcase_index, testcase)
verifier_call(v, idx, text) ==
    LET num == text[2]
        raised ==
            CASE v = "accept" -> Normal
              [] v = "reject" -> TestcaseInvalidError
              [] v = "odd_only" -> IF num % 2 = 0 THEN TestcaseInvalidError ELSE Normal
              [] v = "crash" -> "ZeroDivisionError"
              [] v = "interrupted" -> "KeyboardInterrupt"
              [] v = "strict" -> CASE num = 1 -> Normal
                                   [] num = 2 -> TestcaseInvalidError
                                   [] OTHER -> "ZeroDivisionError"
              [] v = "hanging" -> CASE num = 1 -> Normal
                                    [] num = 2 -> TestcaseInvalidError
                                    [] OTHER -> TimeLimitExceededError
    IN [raised |-> raised,
        value |-> IF raised = Normal THEN AnswerOf(idx, text) ELSE NoAnswer]

(* --------------------------- generator_runner -------------------------- *)

\* A plausible slip: the locals kept in the enclosing generator_runner, one
\* frame for every call.
FrameShared(c) == 1

\* The local variables of runner live in the frame of the call.
Frame(c) == c

\* A plausible slip: while retry_count < retry_limit
LoopConditionLess(count, limit) == count < limit

\* while retry_count != retry_limit
LoopCondition(count, limit) == count # limit

\* rnd = ReproducibleRandom(): a new object per attempt, whatever rnd was.
AttemptRandom(prev, entropy, id) == ReproducibleRandom(NoneVal, entropy, id)

\* A plausible slip: the attempt number without the + 1.
AttemptNumberZeroBased(count) == count

\* The attempt number printed and put into the error message.
AttemptNumber(count) == count + 1

\* A plausible slip: counting the rejected attempt twice.
RetryIncrementTwice(count) == count + 2

\* retry_count += 1
RetryIncrement(count) == count + 1

\* A plausible slip: the first except clause re-raises instead of retrying.
ExceptClauseReraise(e) ==
    IF e = TestcaseInvalidError THEN "propagate"
    ELSE IF IsException(e) THEN "wrap"
    ELSE "propagate"

\* A plausible slip: no clause for TestcaseInvalidError before except Exception.
ExceptClauseNoRetry(e) ==
    IF IsException(e) THEN "wrap" ELSE "propagate"

\* Which except clause of the try statement takes an exception of class e.
ExceptClause(e) ==
    IF e = TestcaseInvalidError THEN "retry"
    ELSE IF IsException(e) THEN "wrap"
    ELSE "propagate"

NoOutcome ==
    [kind |-> "running", value |-> <<>>, attempt |-> 0, rnd |-> NoRnd,
     shown_state |-> <<>>, cause |-> ""]

\* A plausible slip: return answer, testcase
ReturnedSwapped(t, a) == [NoOutcome EXCEPT !.kind = "return", !.value = <<a, t>>]

\* return testcase, answer
Returned(t, a) == [NoOutcome EXCEPT !.kind = "return", !.value = <<t, a>>]

\* raise GeneratorRuntimeError(message, rnd) from e
GeneratorRuntimeError(count, r, e) ==
    [NoOutcome EXCEPT !.kind = "GeneratorRuntimeError",
                      !.attempt = AttemptNumber(count),
                      !.rnd = r,
                      !.shown_state = r.initial_state,
                      !.cause = e]

\* An exception no except clause takes leaves runner as it is.
Propagated(e) == [NoOutcome EXCEPT !.kind = e, !.cause = e]

\* A plausible slip: reporting one attempt more than the limit.
ExhaustionErrorPlusOne(limit) ==
    [NoOutcome EXCEPT !.kind = "RuntimeError", !.attempt = limit + 1]

\* raise RuntimeError(... after {retry_limit} attempts.)
ExhaustionError(limit) == [NoOutcome EXCEPT !.kind = "RuntimeError", !.attempt = limit]

(* ---------------------------- assert_testcase ------------------------- *)

\* The values passed as statement, by their Python literal.
Statements == {"True", "False", "1", "0", "'x'", "''", "[0]", "[]", "None"}

\* bool(statement)
Truthy(statement) == statement \in {"True", "1", "'x'", "[0]"}

\* The values passed as msg, by their Python literal ("''" is the default).
Msgs == {"''", "'n <= 100 expected'", "42", "None"}

\* f"{msg}"
StrOf(msg) ==
    CASE msg = "''" -> ""
      [] msg = "'n <= 100 expected'" -> "n <= 100 expected"
      [] OTHER -> msg

\* The values passed as from_: None or an exception to chain.
Causes == {"None", "ValueError", "ZeroDivisionError"}

\* The source lines of the call sites, as traceback.extract_stack() reads them.
CallerLines == {"    assert_testcase(n <= 100, msg)", "assert_testcase(ok)", ""}

\* caller_frame.line.strip()
Strip(line) ==
    CASE line = "    assert_testcase(n <= 100, msg)" -> "assert_testcase(n <= 100, msg)"
      [] OTHER -> line

\* A piece is one of the pieces a text is put together from.
Contains(text, piece) == \E i \in 1 .. Len(text) : text[i] = piece

NoAssertResult == [raised |-> "", message |-> <<>>, cause |-> "None"]

\* A plausible slip: failing with the built-in AssertionError.
assert_testcase_builtin(statement, msg, from_, line) ==
    IF Truthy(statement)
    THEN [raised |-> Normal, message |-> <<>>, cause |-> "None"]
    ELSE [raised |-> "AssertionError", message |-> <<StrOf(msg)>>, cause |-> from_]

\* assert_testcase(statement, msg, from_=from_), called from the source line
\* `line`: what it raises, with which message, chained to which cause.
assert_testcase(statement, msg, from_, line) ==
    IF Truthy(statement)
    THEN [raised |-> Normal, message |-> <<>>, cause |-> "None"]
    ELSE [raised |-> TestcaseInvalidError,
          message |-> <<StrOf(msg), " <- Assertion failed at: '", Strip(line), "'">>,
          cause |-> from_]

(* ------------------------------ override_io ---------------------------- *)

\* The streams the interpreter started with, and the streams a caller of the
\* wrapped function may have redirected sys.stdin and sys.stdout to.
SysStdin == [id |-> <<"sys", 0>>, text |-> "typed at the console"]
SysStdout == <<"sys", 0>>
RedirectedStdin == [id |-> <<"redirect", 0>>, text |-> "input of the caller"]
RedirectedStdout == <<"redirect", 0>>

\* The n-th StringIO object.
StringIOId(n) == <<"StringIO", n>>
\* The output streams whose content can be read back: the StringIO objects.
OutputStreams == {StringIOId(n) : n \in 1 .. (2 * MaxIoCalls)}

\* Only a StringIO has getvalue().
HasGetvalue(stream) == stream[1] = "StringIO"

\* The values passed to override_io, by kind.
Decorables == {"function", "5", "None"}

\* isinstance(solution, Callable)
IsCallable(x) == x = "function"

\* The values passed as testcase: <<type, value>>.
NoTestcase == <<"NoneType", "">>
Testcases == {NoTestcase, <<"str", "2 4">>, <<"int", "5">>}

\* A plausible slip: no check of the testcase before the try statement.
TestcaseAcceptedAny(t) == TRUE

\* testcase is None or isinstance(testcase, str)
TestcaseAccepted(t) == t = NoTestcase \/ t[1] = "str"

\* A plausible slip: one StringIO made when the function is decorated and used
\* by every call.
CaptureStreamShared(n) == StringIOId(1)

\* sys.stdout = StringIO(): a new object, the n-th one.
CaptureStream(n) == StringIOId(n)

\* What the solution of the n-th wrapped call prints.
Printed(n) == <<"line of call", n>>

\* What a solution returns, and what it may raise.
ReturnValues == {"6", "None"}
SolutionErrors == {"ValueError", "KeyboardInterrupt"}

NoDone ==
    [kind |-> "none", exc |-> "", ret |-> "", out |-> <<>>, testcase |-> NoTestcase,
     invoked |-> FALSE, returned |-> "", wrote |-> <<>>, read |-> <<>>,
     before_in |-> SysStdin, before_out |-> SysStdout,
     after_in |-> SysStdin, after_out |-> SysStdout, rebound |-> 0]

IoIdle ==
    /\ decorated = <<>>
    /\ sys_stdin = SysStdin
    /\ sys_stdout = SysStdout
    /\ buffers = [o \in OutputStreams |-> <<>>]
    /\ nextStream = 0
    /\ ioStack = <<>>
    /\ ioCalls = 0
    /\ rebinds = 0
    /\ lastDone = NoDone

(* ---------------------------- write_testcases ------------------------- *)

\* A file name pattern is the sequence of the pieces of its text; "{" and "}"
\* are single characters, the other pieces are runs of other characters.
DEFAULT_IN_PATTERN == <<"{", "index", "}", ".in">>
DEFAULT_OUT_PATTERN == <<"{", "index", "}", ".out">>

\* The text "{index}" that patterns are searched for.
Placeholder == <<"{", "index", "}">>

\* The patterns a caller passes: the defaults, "x.in", "1{index}",
\* "{index}1", "{{index}}.in" and "{index}{x}".
Patterns ==
    {DEFAULT_IN_PATTERN,
     DEFAULT_OUT_PATTERN,
     <<"x", ".in">>,
     <<"1", "{", "index", "}">>,
     <<"{", "index", "}", "1">>,
     <<"{", "{", "index", "}", "}", ".in">>,
     <<"{", "index", "}", "{", "x", "}">>}

Starts == {-1, 1, 9}
Folders == {NoneVal, Some("cases")}
Pairs == {<<"3 1", "4">>, <<"5 2", "7">>}
TestcaseLists == UNION {[1 .. n -> Pairs] : n \in 0 .. MaxPairs}

\* piece in text, for str operands: piece occurs in text as a run of
\* consecutive characters.
HasSubstring(text, piece) ==
    \E i \in 0 .. (Len(text) - Len(piece)) :
        SubSeq(text, i + 1, i + Len(piece)) = piece

Digit(d) == <<"0", "1", "2", "3", "4", "5", "6", "7", "8", "9">>[d + 1]

RECURSIVE Decimal(_)
Decimal(n) ==
    IF n < 10 THEN <<Digit(n)>> ELSE Decimal(n \div 10) \o <<Digit(n % 10)>>

\* str(n) of an int.
Str(n) == IF n < 0 THEN <<"-">> \o Decimal(-n) ELSE Decimal(n)

\* The text put in front of what the rest of the pattern gives, unless the
\* rest raises.
Prepend(prefix, result) ==
    IF result.exc # "" THEN result ELSE [exc |-> "", name |-> prefix \o result.name]

Raise(exc) == [exc |-> exc, name |-> <<>>]

\* Position of the first "}" of text, 0 when there is none.
Closing(text) ==
    IF \E i \in 1 .. Len(text) : text[i] = "}"
    THEN CHOOSE i \in 1 .. Len(text) :
             /\ text[i] = "}"
             /\ \A k \in 1 .. (i - 1) : text[k] # "}"
    ELSE 0

\* pattern.format(index=idx): "{{" and "}}" stand for one brace, "{index}"
\* for str(idx); a field of another name raises KeyError, an anonymous or
\* numbered field IndexError, a brace left alone ValueError.  Fields are of
\* at most one piece.
RECURSIVE Format(_, _)
Format(pattern, idx) ==
    IF pattern = <<>>
    THEN [exc |-> "", name |-> <<>>]
    ELSE LET head == Head(pattern)
             rest == Tail(pattern)
         IN  IF head = "{"
             THEN IF rest # <<>> /\ Head(rest) = "{"
                  THEN Prepend(<<"{">>, Format(Tail(rest), idx))
                  ELSE IF Closing(rest) = 0
                  THEN Raise("ValueError")
                  ELSE LET field == SubSeq(rest, 1, Closing(rest) - 1)
                           after == SubSeq(rest, Closing(rest) + 1, Len(rest))
                       IN  IF field = <<"index">>
                           THEN Prepend(Str(idx), Format(after, idx))
                           ELSE IF field = <<>> \/ field = <<"1">>
                           THEN Raise("IndexError")
                           ELSE Raise("KeyError")
             ELSE IF head = "}"
             THEN IF rest # <<>> /\ Head(rest) = "}"
                  THEN Prepend(<<"}">>, Format(Tail(rest), idx))
                  ELSE Raise("ValueError")
             ELSE Prepend(<<head>>, Format(rest, idx))

\* folder when it is None: <directory of the caller's file>/testcase.
FolderOf(arg) == IF arg = NoneVal THEN "caller/testcase" ELSE arg[1]

\* A plausible slip: falling back only when both patterns lack "{index}".
PlaceholderMissingBoth(inp, outp) ==
    ~HasSubstring(inp, Placeholder) /\ ~HasSubstring(outp, Placeholder)

\* "{index}" not in in_pattern or "{index}" not in out_pattern
PlaceholderMissing(inp, outp) ==
    ~HasSubstring(inp, Placeholder) \/ ~HasSubstring(outp, Placeholder)

\* The validation of the patterns: what the two locals become and the
\* warning issued.
Validated(inp, outp) ==
    IF PlaceholderMissing(inp, outp)
    THEN [in_pattern |-> DEFAULT_IN_PATTERN, out_pattern |-> DEFAULT_OUT_PATTERN,
          warned |-> <<"Filename patterns must include '{index}'.">>]
    ELSE IF inp = outp
    THEN [in_pattern |-> DEFAULT_IN_PATTERN, out_pattern |-> DEFAULT_OUT_PATTERN,
          warned |-> <<"Input and output patterns are identical.">>]
    ELSE [in_pattern |-> inp, out_pattern |-> outp, warned |-> <<>>]

\* A plausible slip: numbering the pairs from 1 whatever start is.
EnumerateFromOne(start, j) == j

\* enumerate(testcases, start=start): the index of the j-th pair, j = 1, 2, ...
Enumerate(start, j) == start + j - 1

\* path.write_text(text): the file of that name holds text and nothing else.
write_text(fs, name, text) == {f \in fs : f[1] # name} \cup {<<name, text>>}

\* A file left in the folder by an earlier run.
StaleFile == <<<<"1", ".in">>, "stale">>

NoWriterArgs ==
    [folder |-> NoneVal, testcases |-> <<>>, in_pattern |-> DEFAULT_IN_PATTERN,
     out_pattern |-> DEFAULT_OUT_PATTERN, start |-> 1]

WriterIdle ==
    /\ writerPc = "idle"
    /\ writerArgs = NoWriterArgs
    /\ folder = NoneVal
    /\ in_pattern = DEFAULT_IN_PATTERN
    /\ out_pattern = DEFAULT_OUT_PATTERN
    /\ warnings = <<>>
    /\ dirs = {}
    /\ files = {}
    /\ pairsDone = 0
    /\ written = <<>>
    /\ writerExc = ""

(* ------------------------ adapters not in use -------------------------- *)

AssertIdle ==
    /\ assertPc = "idle"
    /\ assertArgs = <<>>
    /\ assertResult = NoAssertResult
    /\ assertClause = ""

AdapterIdle == AssertIdle /\ IoIdle /\ WriterIdle

RandomIdle ==
    /\ rr = NoRnd
    /\ firstOps = <<>>
    /\ firstVals = <<>>
    /\ curOps = <<>>
    /\ curVals = <<>>
    /\ restores = 0
    /\ rrBorn = <<>>

NoGenRet == [attempt |-> 0, index |-> 0, source |-> <<0, 0>>, text |-> NoText]
NoVerSeen == [attempt |-> 0, index |-> 0, text |-> NoText]

RunnerInit ==
    /\ retry_limit \in RetryLimits
    /\ generator \in Generators
    /\ verifier \in Verifiers
    /\ pc = [c \in Calls |-> "idle"]
    /\ testcase_index = [c \in Calls |-> 0]
    /\ retry_count = [c \in Calls |-> 0]
    /\ rnd = [c \in Calls |-> NoRnd]
    /\ testcase = [c \in Calls |-> NoText]
    /\ answer = [c \in Calls |-> NoAnswer]
    /\ outcome = [c \in Calls |-> NoOutcome]
    /\ genCalls = [c \in Calls |-> 0]
    /\ verCalls = [c \in Calls |-> 0]
    /\ rejected = [c \in Calls |-> 0]
    /\ genArg = [c \in Calls |-> <<0, 0>>]
    /\ verArg = [c \in Calls |-> NoText]
    /\ genRet = [c \in Calls |-> NoGenRet]
    /\ verSeen = [c \in Calls |-> NoVerSeen]
    /\ built = [c \in Calls |-> [id |-> <<0, 0>>, state |-> <<>>]]

Init == RunnerInit /\ RandomIdle /\ AdapterIdle

\* run(idx): the call enters runner; retry_count = 0.
Call(c, idx) ==
    /\ pc[c] = "idle"
    /\ pc' = [pc EXCEPT ![c] = "loop"]
    /\ testcase_index' = [testcase_index EXCEPT ![c] = idx]
    /\ retry_count' = [retry_count EXCEPT ![Frame(c)] = 0]
    /\ UNCHANGED <<retry_limit, generator, verifier, rnd, testcase, answer, outcome,
                   genCalls, verCalls, rejected, genArg, verArg, genRet, verSeen,
                   built>>
    /\ UNCHANGED randomVars
    /\ UNCHANGED adapterVars

\* The loop condition holds: rnd = ReproducibleRandom().
NewAttempt(c, entropy) ==
    /\ pc[c] = "loop"
    /\ LoopCondition(retry_count[Frame(c)], retry_limit)
    /\ genCalls[c] < MaxAttempts
    /\ LET r == AttemptRandom(rnd[Frame(c)], entropy, <<c, genCalls[c] + 1>>)
       IN /\ rnd' = [rnd EXCEPT ![Frame(c)] = r]
          /\ built' = [built EXCEPT ![c] = [id |-> r.id, state |-> getstate(r)]]
    /\ pc' = [pc EXCEPT ![c] = "generate"]
    /\ UNCHANGED <<retry_limit, generator, verifier, testcase_index, retry_count,
                   testcase, answer, outcome, genCalls, verCalls, rejected,
                   genArg, verArg, genRet, verSeen>>
    /\ UNCHANGED randomVars
    /\ UNCHANGED adapterVars

\* The loop condition fails: raise RuntimeError.
Exhaust(c) ==
    /\ pc[c] = "loop"
    /\ ~LoopCondition(retry_count[Frame(c)], retry_limit)
    /\ pc' = [pc EXCEPT ![c] = "done"]
    /\ outcome' = [outcome EXCEPT ![c] = ExhaustionError(retry_limit)]
    /\ UNCHANGED <<retry_limit, generator, verifier, testcase_index, retry_count,
                   rnd, testcase, answer, genCalls, verCalls, rejected,
                   genArg, verArg, genRet, verSeen, built>>
    /\ UNCHANGED randomVars
    /\ UNCHANGED adapterVars

\* The except clauses of the try statement, for an exception of class e raised
\* while the random source of the attempt is r.
Except(c, e, r) ==
    LET clause == ExceptClause(e)
    IN /\ pc' = [pc EXCEPT ![c] = IF clause = "retry" THEN "loop" ELSE "done"]
       /\ retry_count' = IF clause = "retry"
                         THEN [retry_count EXCEPT ![Frame(c)] = RetryIncrement(@)]
                         ELSE retry_count
       /\ rejected' = IF e = TestcaseInvalidError
                      THEN [rejected EXCEPT ![c] = @ + 1]
                      ELSE rejected
       /\ outcome' = CASE clause = "wrap" ->
                            [outcome EXCEPT
                               ![c] = GeneratorRuntimeError(retry_count[Frame(c)], r, e)]
                       [] clause = "propagate" ->
                            [outcome EXCEPT ![c] = Propagated(e)]
                       [] OTHER -> outcome

\* testcase = generator(testcase_index, rnd)
Generate(c) ==
    /\ pc[c] = "generate"
    /\ LET res == generator_call(generator, testcase_index[c], rnd[Frame(c)])
       IN /\ genCalls' = [genCalls EXCEPT ![c] = @ + 1]
          /\ genArg' = [genArg EXCEPT ![c] = rnd[Frame(c)].id]
          /\ rnd' = [rnd EXCEPT ![Frame(c)] = res.rnd]
          /\ IF res.raised = Normal
             THEN /\ testcase' = [testcase EXCEPT ![Frame(c)] = res.value]
                  /\ genRet' = [genRet EXCEPT
                                  ![c] = [attempt |-> genCalls[c] + 1,
                                          index |-> testcase_index[c],
                                          source |-> rnd[Frame(c)].id,
                                          text |-> res.value]]
                  /\ pc' = [pc EXCEPT ![c] = "verify"]
                  /\ UNCHANGED <<retry_count, rejected, outcome>>
             ELSE /\ Except(c, res.raised, res.rnd)
                  /\ UNCHANGED <<testcase, genRet>>
    /\ UNCHANGED <<retry_limit, generator, verifier, testcase_index, answer,
                   verCalls, verArg, verSeen, built>>
    /\ UNCHANGED randomVars
    /\ UNCHANGED adapterVars

\* answer = verifier(testcase_index, testcase); return testcase, answer
Verify(c) ==
    /\ pc[c] = "verify"
    /\ LET res == verifier_call(verifier, testcase_index[c], testcase[Frame(c)])
       IN /\ verCalls' = [verCalls EXCEPT ![c] = @ + 1]
          /\ verArg' = [verArg EXCEPT ![c] = testcase[Frame(c)]]
          /\ verSeen' = [verSeen EXCEPT
                           ![c] = [attempt |-> genCalls[c],
                                   index |-> testcase_index[c],
                                   text |-> testcase[Frame(c)]]]
          /\ IF res.raised = Normal
             THEN /\ answer' = [answer EXCEPT ![Frame(c)] = res.value]
                  /\ pc' = [pc EXCEPT ![c] = "done"]
                  /\ outcome' = [outcome EXCEPT
                                   ![c] = Returned(testcase[Frame(c)], res.value)]
                  /\ UNCHANGED <<retry_count, rejected>>
             ELSE /\ Except(c, res.raised, rnd[Frame(c)])
                  /\ UNCHANGED answer
    /\ UNCHANGED <<retry_limit, generator, verifier, testcase_index, rnd, testcase,
                   genCalls, genArg, genRet, built>>
    /\ UNCHANGED randomVars
    /\ UNCHANGED adapterVars

Next ==
    \/ \E c \in Calls, idx \in Indices : Call(c, idx)
    \/ \E c \in Calls, entropy \in Entropy : NewAttempt(c, entropy)
    \/ \E c \in Calls : Exhaust(c)
    \/ \E c \in Calls : Generate(c)
    \/ \E c \in Calls : Verify(c)

Spec == Init /\ [][Next]_vars

(* ------------------- the scenario of an odd-only verifier -------------- *)

\* The first randint(1, 3) of a source seeded with this entropy is odd.
FirstDrawOdd(entropy) ==
    DrawRandint(RandomSeed(NoneVal, entropy), 1, 3).value % 2 = 1

ScenarioCalls == {1}

ScenarioInit ==
    /\ RunnerInit
    /\ generator = "simple_generator"
    /\ verifier = "odd_only"
    /\ RandomIdle
    /\ AdapterIdle

\* NewAttempt where the system entropy yields an even draw at most MaxAttempts
\* times in a call; after that it yields an odd one.
ScenarioAttempt(c, entropy) ==
    /\ pc[c] = "loop"
    /\ LoopCondition(retry_count[Frame(c)], retry_limit)
    /\ genCalls[c] < MaxAttempts \/ FirstDrawOdd(entropy)
    /\ LET r == AttemptRandom(rnd[Frame(c)], entropy, <<c, genCalls[c] + 1>>)
       IN /\ rnd' = [rnd EXCEPT ![Frame(c)] = r]
          /\ built' = [built EXCEPT ![c] = [id |-> r.id, state |-> getstate(r)]]
    /\ pc' = [pc EXCEPT ![c] = "generate"]
    /\ UNCHANGED <<retry_limit, generator, verifier, testcase_index, retry_count,
                   testcase, answer, outcome, genCalls, verCalls, rejected,
                   genArg, verArg, genRet, verSeen>>
    /\ UNCHANGED randomVars
    /\ UNCHANGED adapterVars

OddAttempt(c) == \E entropy \in Entropy : FirstDrawOdd(entropy) /\ ScenarioAttempt(c, entropy)

ScenarioNext ==
    \/ \E c \in ScenarioCalls, idx \in Indices : Call(c, idx)
    \/ \E c \in ScenarioCalls, entropy \in Entropy : ScenarioAttempt(c, entropy)
    \/ \E c \in ScenarioCalls : Exhaust(c)
    \/ \E c \in ScenarioCalls : Generate(c)
    \/ \E c \in ScenarioCalls : Verify(c)

\* The thread of a call keeps running, and an odd draw is not avoided forever.
SpecScenario ==
    /\ ScenarioInit
    /\ [][ScenarioNext]_vars
    /\ WF_vars(ScenarioNext)
    /\ \A c \in ScenarioCalls : SF_vars(OddAttempt(c))

(* ------------------ a ReproducibleRandom instance alone ---------------- *)

Seeds == {NoneVal, Some(0), Some(1), Some(6)}

RunnerIdle ==
    /\ RunnerInit
    /\ retry_limit = -1
    /\ generator = "simple_generator"
    /\ verifier = "accept"

RandomInit ==
    /\ RunnerIdle
    /\ \E seed \in Seeds, entropy \in Entropy :
          rr = ReproducibleRandom(seed, entropy, <<0, 1>>)
    /\ rrBorn = getstate(rr)
    /\ firstOps = <<>>
    /\ firstVals = <<>>
    /\ curOps = <<>>
    /\ curVals = <<>>
    /\ restores = 0
    /\ AdapterIdle

\* A draw right after construction.
DrawFirst(op) ==
    /\ restores = 0
    /\ Len(firstOps) < MaxDraws
    /\ rr' = Draw(rr, op).rnd
    /\ firstOps' = Append(firstOps, op)
    /\ firstVals' = Append(firstVals, Draw(rr, op).value)
    /\ UNCHANGED <<curOps, curVals, restores, rrBorn>>
    /\ UNCHANGED runnerVars
    /\ UNCHANGED adapterVars

\* rr.back_to_initial()
Restore(entropy) ==
    /\ restores < MaxRestores
    /\ rr' = back_to_initial(rr, entropy)
    /\ curOps' = <<>>
    /\ curVals' = <<>>
    /\ restores' = restores + 1
    /\ UNCHANGED <<firstOps, firstVals, rrBorn>>
    /\ UNCHANGED runnerVars
    /\ UNCHANGED adapterVars

\* A draw after a back_to_initial().
DrawAgain(op) ==
    /\ restores > 0
    /\ Len(curOps) < MaxDraws
    /\ rr' = Draw(rr, op).rnd
    /\ curOps' = Append(curOps, op)
    /\ curVals' = Append(curVals, Draw(rr, op).value)
    /\ UNCHANGED <<firstOps, firstVals, restores, rrBorn>>
    /\ UNCHANGED runnerVars
    /\ UNCHANGED adapterVars

RandomNext ==
    \/ \E op \in DrawOps : DrawFirst(op)
    \/ \E entropy \in Entropy : Restore(entropy)
    \/ \E op \in DrawOps : DrawAgain(op)

SpecRandom == RandomInit /\ [][RandomNext]_vars

(* ------------- assert_testcase inside a generator or verifier ---------- *)

AssertInit ==
    /\ RunnerIdle
    /\ RandomIdle
    /\ AssertIdle
    /\ IoIdle
    /\ WriterIdle

\* A generator or verifier calls assert_testcase.
AssertCall(statement, msg, from_, line) ==
    /\ assertPc = "idle"
    /\ assertArgs' = <<statement, msg, from_, line>>
    /\ assertResult' = assert_testcase(statement, msg, from_, line)
    /\ assertPc' = IF assert_testcase(statement, msg, from_, line).raised = Normal
                   THEN "returned" ELSE "raised"
    /\ UNCHANGED assertClause
    /\ UNCHANGED runnerVars
    /\ UNCHANGED randomVars
    /\ UNCHANGED ioVars
    /\ UNCHANGED writerVars

\* The exception leaves the generator or verifier and reaches the try
\* statement of runner.
RunnerCatches ==
    /\ assertPc = "raised"
    /\ assertClause' = ExceptClause(assertResult.raised)
    /\ assertPc' = "caught"
    /\ UNCHANGED <<assertArgs, assertResult>>
    /\ UNCHANGED runnerVars
    /\ UNCHANGED randomVars
    /\ UNCHANGED ioVars
    /\ UNCHANGED writerVars

AssertNext ==
    \/ \E statement \in Statements, msg \in Msgs, from_ \in Causes, line \in CallerLines :
          AssertCall(statement, msg, from_, line)
    \/ RunnerCatches

SpecAssert == AssertInit /\ [][AssertNext]_vars

(* ---------------------- calls of a wrapped solution -------------------- *)

\* The caller may have redirected both streams before it uses the wrapper.
IoInit ==
    /\ RunnerIdle
    /\ RandomIdle
    /\ AssertIdle
    /\ WriterIdle
    /\ decorated = <<>>
    /\ \/ sys_stdin = SysStdin /\ sys_stdout = SysStdout
       \/ sys_stdin = RedirectedStdin /\ sys_stdout = RedirectedStdout
    /\ buffers = [o \in OutputStreams |-> <<>>]
    /\ nextStream = 0
    /\ ioStack = <<>>
    /\ ioCalls = 0
    /\ rebinds = 0
    /\ lastDone = NoDone

\* override_io(x)
Decorate(x) ==
    /\ decorated = <<>>
    /\ decorated' = <<x, IF IsCallable(x) THEN "inner" ELSE "TypeError">>
    /\ UNCHANGED <<sys_stdin, sys_stdout, buffers, nextStream, ioStack, ioCalls,
                   rebinds, lastDone>>
    /\ UNCHANGED <<runnerVars, randomVars, assertVars, writerVars>>

\* The wrapped call that is in progress innermost.
Top == ioStack[Len(ioStack)]

\* The finally clause: sys.stdin = sys.__stdin__; sys.stdout = sys.__stdout__
Finally ==
    /\ sys_stdin' = SysStdin
    /\ sys_stdout' = SysStdout

\* inner(testcase=t), called from outside or by the solution of the call in
\* progress: the check of the testcase, then the redirection.
WrappedCall(t) ==
    /\ decorated # <<>>
    /\ decorated[2] = "inner"
    /\ ioCalls < MaxIoCalls
    /\ ioCalls' = ioCalls + 1
    /\ IF ~TestcaseAccepted(t)
       THEN \* raise TypeError, before the try statement
            /\ lastDone' = [NoDone EXCEPT !.kind = "raise", !.exc = "TypeError",
                                          !.testcase = t,
                                          !.before_in = sys_stdin,
                                          !.before_out = sys_stdout,
                                          !.after_in = sys_stdin,
                                          !.after_out = sys_stdout]
            /\ UNCHANGED <<sys_stdin, sys_stdout, nextStream, ioStack, rebinds>>
       ELSE IF t # NoTestcase /\ t[1] # "str"
       THEN \* StringIO(testcase) raises TypeError inside the try statement
            /\ Finally
            /\ rebinds' = rebinds + 2
            /\ lastDone' = [NoDone EXCEPT !.kind = "raise", !.exc = "TypeError",
                                          !.testcase = t,
                                          !.before_in = sys_stdin,
                                          !.before_out = sys_stdout,
                                          !.after_in = SysStdin,
                                          !.after_out = SysStdout,
                                          !.rebound = 2]
            /\ UNCHANGED <<nextStream, ioStack>>
       ELSE LET nIn == IF t = NoTestcase THEN 0 ELSE 1
                capture == CaptureStream(nextStream + nIn + 1)
            IN /\ sys_stdin' = IF t = NoTestcase
                               THEN sys_stdin
                               ELSE [id |-> StringIOId(nextStream + 1), text |-> t[2]]
               /\ sys_stdout' = capture
               /\ nextStream' = nextStream + nIn + 1
               /\ rebinds' = rebinds + nIn + 1
               /\ ioStack' = Append(ioStack,
                                    [testcase |-> t,
                                     before_in |-> sys_stdin,
                                     before_out |-> sys_stdout,
                                     rebinds0 |-> rebinds,
                                     serial |-> ioCalls + 1,
                                     wrote |-> <<>>,
                                     read |-> <<>>])
               /\ UNCHANGED lastDone
    /\ UNCHANGED <<decorated, buffers>>
    /\ UNCHANGED <<runnerVars, randomVars, assertVars, writerVars>>

\* The solution in progress prints its text: print() writes to sys.stdout,
\* and what goes to a stream that is no StringIO cannot be read back.
SolWrite ==
    /\ ioStack # <<>>
    /\ Len(Top.wrote) < MaxWrites
    /\ buffers' = IF HasGetvalue(sys_stdout)
                  THEN [buffers EXCEPT ![sys_stdout] = Append(@, Printed(Top.serial))]
                  ELSE buffers
    /\ ioStack' = [ioStack EXCEPT ![Len(ioStack)].wrote = Append(@, Printed(Top.serial))]
    /\ UNCHANGED <<decorated, sys_stdin, sys_stdout, nextStream, ioCalls, rebinds,
                   lastDone>>
    /\ UNCHANGED <<runnerVars, randomVars, assertVars, writerVars>>

\* The solution in progress reads its input: input() reads sys.stdin.
SolRead ==
    /\ ioStack # <<>>
    /\ Top.read = <<>>
    /\ ioStack' = [ioStack EXCEPT ![Len(ioStack)].read = <<sys_stdin.text>>]
    /\ UNCHANGED <<decorated, sys_stdin, sys_stdout, buffers, nextStream, ioCalls,
                   rebinds, lastDone>>
    /\ UNCHANGED <<runnerVars, randomVars, assertVars, writerVars>>

\* How the call in progress ends, seen from its caller.
Ending(kind, exc, ret, out, returned) ==
    [kind |-> kind, exc |-> exc, ret |-> ret, out |-> out,
     testcase |-> Top.testcase, invoked |-> TRUE, returned |-> returned,
     wrote |-> Top.wrote, read |-> Top.read,
     before_in |-> Top.before_in, before_out |-> Top.before_out,
     after_in |-> SysStdin, after_out |-> SysStdout,
     rebound |-> rebinds + 2 - Top.rebinds0]

\* The solution in progress returns ret: output = sys.stdout.getvalue(), which
\* raises AttributeError when sys.stdout is no StringIO; then the finally
\* clause, then return ret, output.
SolReturn(ret) ==
    /\ ioStack # <<>>
    /\ lastDone' = IF HasGetvalue(sys_stdout)
                   THEN Ending("return", "", ret, buffers[sys_stdout], ret)
                   ELSE Ending("raise", "AttributeError", "", <<>>, ret)
    /\ Finally
    /\ rebinds' = rebinds + 2
    /\ ioStack' = SubSeq(ioStack, 1, Len(ioStack) - 1)
    /\ UNCHANGED <<decorated, buffers, nextStream, ioCalls>>
    /\ UNCHANGED <<runnerVars, randomVars, assertVars, writerVars>>

\* The solution in progress raises exc: the finally clause, then exc goes on
\* to the caller.
SolRaise(exc) ==
    /\ ioStack # <<>>
    /\ lastDone' = Ending("raise", exc, "", <<>>, "")
    /\ Finally
    /\ rebinds' = rebinds + 2
    /\ ioStack' = SubSeq(ioStack, 1, Len(ioStack) - 1)
    /\ UNCHANGED <<decorated, buffers, nextStream, ioCalls>>
    /\ UNCHANGED <<runnerVars, randomVars, assertVars, writerVars>>

IoNext ==
    \/ \E x \in Decorables : Decorate(x)
    \/ \E t \in Testcases : WrappedCall(t)
    \/ SolWrite
    \/ SolRead
    \/ \E ret \in ReturnValues : SolReturn(ret)
    \/ \E exc \in SolutionErrors : SolRaise(exc)

SpecIo == IoInit /\ [][IoNext]_vars

(* ------------------------ a call of write_testcases -------------------- *)

\* write_testcases(folder=..., testcases=..., in_pattern=..., out_pattern=...,
\* start=...) has been called; the folder may exist already and hold a file.
WriterInit ==
    /\ RunnerIdle
    /\ RandomIdle
    /\ AssertIdle
    /\ IoIdle
    /\ writerPc = "called"
    /\ writerArgs \in [folder : Folders, testcases : TestcaseLists,
                       in_pattern : Patterns, out_pattern : Patterns,
                       start : Starts]
    /\ folder = writerArgs.folder
    /\ in_pattern = writerArgs.in_pattern
    /\ out_pattern = writerArgs.out_pattern
    /\ warnings = <<>>
    /\ dirs \in {{}, {FolderOf(writerArgs.folder)}}
    /\ files \in (IF dirs = {} THEN {{}} ELSE {{}, {StaleFile}})
    /\ pairsDone = 0
    /\ written = <<>>
    /\ writerExc = ""

\* The default folder, the validation of the patterns and
\* folder.mkdir(parents=True, exist_ok=True).
Validate ==
    /\ writerPc = "called"
    /\ folder' = FolderOf(folder)
    /\ in_pattern' = Validated(in_pattern, out_pattern).in_pattern
    /\ out_pattern' = Validated(in_pattern, out_pattern).out_pattern
    /\ warnings' = warnings \o Validated(in_pattern, out_pattern).warned
    /\ dirs' = dirs \cup {FolderOf(folder)}
    /\ writerPc' = "loop"
    /\ UNCHANGED <<writerArgs, files, pairsDone, written, writerExc>>
    /\ UNCHANGED <<runnerVars, randomVars, assertVars, ioVars>>

\* One iteration of the loop: both names are formatted, then the input file
\* is written, then the output file.
WritePair ==
    /\ writerPc = "loop"
    /\ pairsDone < Len(writerArgs.testcases)
    /\ LET j == pairsDone + 1
           idx == Enumerate(writerArgs.start, j)
           in_name == Format(in_pattern, idx)
           out_name == Format(out_pattern, idx)
           input_data == writerArgs.testcases[j][1]
           expected == writerArgs.testcases[j][2]
       IN  IF in_name.exc # "" \/ out_name.exc # ""
           THEN /\ writerPc' = "raised"
                /\ writerExc' = IF in_name.exc # "" THEN in_name.exc ELSE out_name.exc
                /\ UNCHANGED <<files, pairsDone, written>>
           ELSE /\ files' = write_text(write_text(files, in_name.name, input_data),
                                       out_name.name, expected)
                /\ written' = written \o <<in_name.name, out_name.name>>
                /\ pairsDone' = j
                /\ UNCHANGED <<writerPc, writerExc>>
    /\ UNCHANGED <<writerArgs, folder, in_pattern, out_pattern, warnings, dirs>>
    /\ UNCHANGED <<runnerVars, randomVars, assertVars, ioVars>>

\* The loop has consumed testcases: write_testcases returns None.
WriterReturn ==
    /\ writerPc = "loop"
    /\ pairsDone = Len(writerArgs.testcases)
    /\ writerPc' = "done"
    /\ UNCHANGED <<writerArgs, folder, in_pattern, out_pattern, warnings, dirs,
                   files, pairsDone, written, writerExc>>
    /\ UNCHANGED <<runnerVars, randomVars, assertVars, ioVars>>

WriterNext ==
    \/ Validate
    \/ WritePair
    \/ WriterReturn

SpecWriter == WriterInit /\ [][WriterNext]_vars

(* ------------------------------- claims -------------------------------- *)

Ended(c) == pc[c] = "done"

\* C1 (as claimed): with retry_limit = k >= 0 and a verifier that rejects every
\* attempt, a call ends with the exhaustion RuntimeError after exactly k + 1
\* invocations of the generator.
C1_ExhaustsAfterKPlusOne ==
    \A c \in Calls :
        (Ended(c) /\ retry_limit >= 0 /\ generator = "simple_generator"
                  /\ verifier = "reject")
        => (outcome[c].kind = "RuntimeError" /\ genCalls[c] = retry_limit + 1)

\* C2 (as claimed): with a generator and a verifier that only ever reject or
\* succeed, a call whose attempt m <= retry_limit + 1 succeeds returns the pair
\* of that attempt after exactly m generator invocations; so a call ends in
\* exhaustion only when attempts 1 .. retry_limit + 1 were all rejected.
C2_ReturnsOnAttemptM ==
    \A c \in Calls :
        (Ended(c) /\ generator = "simple_generator"
                  /\ verifier \in {"accept", "odd_only"})
        => \/ /\ outcome[c].kind = "return"
              /\ genCalls[c] = rejected[c] + 1
              /\ verCalls[c] <= genCalls[c]
              /\ outcome[c].value = <<testcase[Frame(c)], answer[Frame(c)]>>
           \/ /\ outcome[c].kind = "RuntimeError"
              /\ retry_limit >= 0
              /\ rejected[c] = retry_limit + 1

\* C3 (as claimed): whatever retry_limit is, a verifier that fails with an
\* exception other than TestcaseInvalidError on the first attempt makes the call
\* raise GeneratorRuntimeError after exactly one generator invocation.
C3_FatalOnFirstAttempt ==
    \A c \in Calls :
        (Ended(c) /\ generator = "simple_generator" /\ verifier = "crash")
        => (outcome[c].kind = "GeneratorRuntimeError" /\ genCalls[c] = 1)

\* C4 (as claimed): a call only ever ends by returning a pair, by raising
\* GeneratorRuntimeError or by raising the exhaustion RuntimeError; no failure
\* of the generator or the verifier reaches the caller unwrapped.
C4_OnlyThreeEndings ==
    \A c \in Calls :
        Ended(c) => outcome[c].kind \in {"return", "GeneratorRuntimeError", "RuntimeError"}

\* C5: a GeneratorRuntimeError raised on attempt j carries the random source
\* constructed for attempt j and passed to the generator in attempt j, the
\* initial_state of that source is the state captured at its construction, and
\* the attempt number of the message is j, the generator invocations so far.
C5_FatalErrorCarriesAttemptSource ==
    \A c \in Calls :
        outcome[c].kind = "GeneratorRuntimeError"
        => /\ outcome[c].rnd.id = <<c, genCalls[c]>>
           /\ outcome[c].rnd.id = built[c].id
           /\ outcome[c].rnd.id = genArg[c]
           /\ outcome[c].rnd.initial_state = built[c].state
           /\ outcome[c].shown_state = built[c].state
           /\ outcome[c].attempt = genCalls[c]

\* C5 witness: a fatal error on a second or later attempt.
C5_Witness ==
    \E c \in Calls : outcome[c].kind = "GeneratorRuntimeError" /\ genCalls[c] >= 2

C7_NegativeLimitNeverExhausts ==
    \A c \in Calls :
        retry_limit < 0
        => /\ outcome[c].kind # "RuntimeError"
           /\ pc[c] = "loop" => LoopCondition(retry_count[Frame(c)], retry_limit)
           /\ (verifier = "reject" /\ generator # "buggy_generator") => ~Ended(c)

\* C7 witness: every attempt so far was rejected and the call is about to
\* start another one.
C7_Witness ==
    \E c \in Calls :
        /\ retry_limit < 0
        /\ verifier = "reject"
        /\ pc[c] = "loop"
        /\ rejected[c] >= 3

\* The call returned an input whose second number is odd.
SucceededOdd(c) ==
    /\ Ended(c)
    /\ outcome[c].kind = "return"
    /\ outcome[c].value[1][2] % 2 = 1

\* C8: with an unbounded retry_limit, the generator drawing the second number
\* and a verifier rejecting the even ones, run(0) (like a run for any other
\* index) eventually returns, and an input it returns has an odd second number.
C8_EventuallyOddSuccess ==
    /\ (retry_limit < 0) => <>SucceededOdd(1)
    /\ [](outcome[1].kind = "return" => SucceededOdd(1))

\* C8 witness: run(0) returned an odd input after rejected even ones.
C8_Witness ==
    /\ retry_limit < 0
    /\ testcase_index[1] = 0
    /\ SucceededOdd(1)
    /\ rejected[1] >= 2

\* The local state of a call.
Locals(c) ==
    <<testcase_index[c], retry_count[Frame(c)], rnd[Frame(c)], testcase[Frame(c)],
      answer[Frame(c)], outcome[c], genCalls[c], verCalls[c], rejected[c]>>

\* C9: interleaved calls share no mutable state: a step of one call leaves the
\* local state of the others alone, the retry count of a call counts its own
\* rejections, its random source is one it constructed itself, a call that
\* ends in exhaustion has made all the attempts retry_limit gives it, and what
\* a call returns is built from its own index.
C9_CallsIndependent ==
    /\ [](\A c \in Calls :
            /\ pc[c] # "idle" => retry_count[Frame(c)] = rejected[c]
            /\ pc[c] \in {"generate", "verify"}
               => (rnd[Frame(c)].id = built[c].id /\ rnd[Frame(c)].id[1] = c)
            /\ (Ended(c) /\ outcome[c].kind = "RuntimeError")
               => (genCalls[c] = retry_limit /\ rejected[c] = retry_limit)
            /\ (Ended(c) /\ outcome[c].kind = "return")
               => /\ outcome[c].value[1][1] = testcase_index[c]
                  /\ outcome[c].value[2] = AnswerOf(testcase_index[c], outcome[c].value[1])
                  /\ genCalls[c] = rejected[c] + 1)
    /\ [][\A c \in Calls : pc'[c] = pc[c] => Locals(c)' = Locals(c)]_vars

\* C9 witness: two calls for different indices, both ended in exhaustion after
\* two rejected attempts each.
C9_Witness ==
    /\ testcase_index[1] # testcase_index[2]
    /\ \A c \in Calls :
          /\ Ended(c)
          /\ outcome[c].kind = "RuntimeError"
          /\ genCalls[c] = 2

\* s is an initial segment of t.
IsPrefix(s, t) == Len(s) <= Len(t) /\ s = SubSeq(t, 1, Len(s))

\* C10: after back_to_initial() the same draw operations return the values
\* they returned right after construction, any number of times, and
\* initial_state stays the state captured at construction.
C10_RestoreReplaysDraws ==
    /\ rr.initial_state = rrBorn
    /\ (restores > 0 /\ IsPrefix(curOps, firstOps))
       => curVals = SubSeq(firstVals, 1, Len(curOps))

\* C10 witness: the second replay of three draws, a cached gauss() among them.
C10_Witness ==
    /\ restores >= 2
    /\ Len(firstOps) >= 3
    /\ curOps = firstOps
    /\ firstOps[1] = "gauss"
    /\ firstOps[3] = "gauss"
    /\ rr.seed = NoneVal

\* C11: assert_testcase returns without raising for every truthy statement;
\* for every falsy one it raises TestcaseInvalidError, no other class, with a
\* message that contains msg, and runner takes that exception as a retry.
C11_AssertRaisesOnlyTestcaseInvalid ==
    assertPc # "idle"
    => /\ Truthy(assertArgs[1])
          => (assertPc = "returned" /\ assertResult.raised = Normal)
       /\ ~Truthy(assertArgs[1])
          => /\ assertPc \in {"raised", "caught"}
             /\ assertResult.raised = TestcaseInvalidError
             /\ Contains(assertResult.message, StrOf(assertArgs[2]))
             /\ assertPc = "caught" => assertClause = "retry"

\* C11 witness: a falsy statement with a message and a cause was raised as a
\* TestcaseInvalidError and taken by runner.
C11_Witness ==
    /\ assertPc = "caught"
    /\ assertArgs[1] = "[]"
    /\ assertArgs[2] = "'n <= 100 expected'"
    /\ assertArgs[3] = "ValueError"
    /\ assertResult.cause = "ValueError"

\* C12 (as claimed): after every call of a wrapped function, however it ends
\* and whatever sys.stdin and sys.stdout were bound to before, both are bound
\* to the streams they were bound to immediately before the call.
C12_StreamsRestored ==
    lastDone.kind # "none"
    => /\ lastDone.after_in = lastDone.before_in
       /\ lastDone.after_out = lastDone.before_out

\* C13: override_io raises TypeError for every non-callable argument, and a
\* wrapped call whose testcase is neither None nor a string raises TypeError
\* without invoking the solution and without rebinding sys.stdin or sys.stdout.
C13_ContractViolationsRejected ==
    /\ decorated # <<>>
       => (decorated[2] = "TypeError" <=> decorated[1] # "function")
    /\ (lastDone.kind # "none" /\ lastDone.testcase[1] \notin {"NoneType", "str"})
       => /\ lastDone.kind = "raise"
          /\ lastDone.exc = "TypeError"
          /\ ~lastDone.invoked
          /\ lastDone.rebound = 0
          /\ lastDone.after_in = lastDone.before_in
          /\ lastDone.after_out = lastDone.before_out

\* C13 witness: a call with an int testcase made by a solution whose own output
\* is being captured was rejected and left the capture in place.
C13_Witness ==
    /\ lastDone.testcase[1] = "int"
    /\ lastDone.exc = "TypeError"
    /\ Len(ioStack) = 1
    /\ HasGetvalue(sys_stdout)
    /\ sys_stdin.text = "2 4"

\* C14: a wrapped call that returns normally yields the return value of the
\* solution and exactly the text the solution printed during that call, no
\* text of an earlier call and none of it lost, and a solution given a string
\* testcase read that string.
C14_ReturnsValueAndCapturedOutput ==
    lastDone.kind = "return"
    => /\ lastDone.ret = lastDone.returned
       /\ lastDone.out = lastDone.wrote
       /\ (lastDone.testcase[1] = "str" /\ lastDone.read # <<>>)
          => lastDone.read = <<lastDone.testcase[2]>>

\* C14 witness: the second of two calls in sequence read its testcase, printed
\* and returned, after the first one had printed too.
C14_Witness ==
    /\ ioStack = <<>>
    /\ lastDone.kind = "return"
    /\ lastDone.ret = "6"
    /\ lastDone.out = <<Printed(2)>>
    /\ lastDone.read = <<"2 4">>
    /\ \E o \in OutputStreams : buffers[o] = <<Printed(1)>>

\* The names the passed patterns resolve to for the j-th pair of the call.
PassedInName(j) == Format(writerArgs.in_pattern, writerArgs.start + j - 1)
PassedOutName(j) == Format(writerArgs.out_pattern, writerArgs.start + j - 1)
PairNumbers == 1 .. Len(writerArgs.testcases)
WriterEnded == writerPc \in {"done", "raised"}

\* Both passed patterns hold "{index}" and format without error.
ValidTemplates ==
    /\ HasSubstring(writerArgs.in_pattern, Placeholder)
    /\ HasSubstring(writerArgs.out_pattern, Placeholder)
    /\ Format(writerArgs.in_pattern, writerArgs.start).exc = ""
    /\ Format(writerArgs.out_pattern, writerArgs.start).exc = ""

\* Two of the 2n names the passed patterns resolve to are the same.
Colliding ==
    \E j \in PairNumbers, k \in PairNumbers :
        /\ PassedInName(j).exc = ""
        /\ PassedOutName(k).exc = ""
        /\ PassedInName(k).exc = ""
        /\ PassedOutName(j).exc = ""
        /\ \/ PassedInName(j).name = PassedOutName(k).name
           \/ j # k /\ PassedInName(j).name = PassedInName(k).name
           \/ j # k /\ PassedOutName(j).name = PassedOutName(k).name

\* No name was written twice during the call.
NoOverwrite ==
    \A a \in 1 .. Len(written), b \in 1 .. Len(written) :
        a # b => written[a] # written[b]

\* C15: with valid, non-colliding templates and start = s, write_testcases
\* ends normally, the folder exists, the files were written in the order
\* input of pair 1, output of pair 1, input of pair 2, ..., under the names the
\* templates give for s, s+1, ..., and each of the 2n files holds the text of
\* its own pair; defaults with start 1 give 1.in, 1.out, 2.in, 2.out.
C15_WritesIndexedPairs ==
    (WriterEnded /\ ValidTemplates /\ ~Colliding)
    => /\ writerPc = "done"
       /\ folder \in dirs
       /\ Len(written) = 2 * Len(writerArgs.testcases)
       /\ \A j \in PairNumbers :
             /\ written[2 * j - 1] = PassedInName(j).name
             /\ written[2 * j] = PassedOutName(j).name
             /\ <<PassedInName(j).name, writerArgs.testcases[j][1]>> \in files
             /\ <<PassedOutName(j).name, writerArgs.testcases[j][2]>> \in files
             /\ \A f \in files :
                   f[1] = PassedInName(j).name => f[2] = writerArgs.testcases[j][1]
       /\ (/\ writerArgs.in_pattern = DEFAULT_IN_PATTERN
           /\ writerArgs.out_pattern = DEFAULT_OUT_PATTERN
           /\ writerArgs.start = 1
           /\ Len(writerArgs.testcases) = 2)
          => written = << <<"1", ".in">>, <<"1", ".out">>,
                          <<"2", ".in">>, <<"2", ".out">> >>

\* C15 witness: two pairs written from start 9 under "1{index}" and
\* "{index}.out", into a folder that held a file of an earlier run.
C15_Witness ==
    /\ writerPc = "done"
    /\ writerArgs.in_pattern = <<"1", "{", "index", "}">>
    /\ writerArgs.out_pattern = DEFAULT_OUT_PATTERN
    /\ writerArgs.start = 9
    /\ Len(writerArgs.testcases) = 2
    /\ writerArgs.testcases[1] # writerArgs.testcases[2]
    /\ written = << <<"1", "9">>, <<"9", ".out">>,
                    <<"1", "1", "0">>, <<"1", "0", ".out">> >>
    /\ StaleFile \in files

\* C16 (as claimed): whenever the passed templates resolve to the same file
\* for some index in use, the writer warns, falls back to the defaults, and no
\* file written during the call is written a second time.
C16_CollidingTemplatesFallBack ==
    (WriterEnded /\ Colliding)
    => /\ warnings # <<>>
       /\ in_pattern = DEFAULT_IN_PATTERN
       /\ out_pattern = DEFAULT_OUT_PATTERN
       /\ NoOverwrite

\* C17: whenever the input pattern or the output pattern lacks "{index}",
\* the writer warns, replaces both patterns by the defaults, does not fail,
\* and writes pair j to <start+j>.in and <start+j>.out.
C17_MissingPlaceholderFallsBack ==
    (/\ writerPc # "called"
     /\ \/ ~HasSubstring(writerArgs.in_pattern, Placeholder)
        \/ ~HasSubstring(writerArgs.out_pattern, Placeholder))
    => /\ Len(warnings) = 1
       /\ in_pattern = DEFAULT_IN_PATTERN
       /\ out_pattern = DEFAULT_OUT_PATTERN
       /\ writerPc # "raised"
       /\ NoOverwrite
       /\ \A j \in 1 .. pairsDone :
             /\ <<Str(writerArgs.start + j - 1) \o <<".in">>,
                  writerArgs.testcases[j][1]>> \in files
             /\ <<Str(writerArgs.start + j - 1) \o <<".out">>,
                  writerArgs.testcases[j][2]>> \in files
       /\ writerPc = "done" => pairsDone = Len(writerArgs.testcases)

\* C17 witness: only the input pattern, "x.in", lacks the placeholder, and two
\* pairs ended up in 9.in, 9.out, 10.in, 10.out.
C17_Witness ==
    /\ writerPc = "done"
    /\ writerArgs.in_pattern = <<"x", ".in">>
    /\ writerArgs.out_pattern = <<"{", "index", "}", "1">>
    /\ writerArgs.start = 9
    /\ pairsDone = 2
    /\ written = << <<"9", ".in">>, <<"9", ".out">>,
                    <<"1", "0", ".in">>, <<"1", "0", ".out">> >>

\* C18: in every attempt the random source is constructed, then passed to the
\* generator, then the verifier is invoked, only after the generator of the
\* same attempt returned normally, with the index of the call and the text that
\* generator returned; the pair returned is the text of the last attempt and
\* the verifier's answer for it.
C18_AttemptOrder ==
    /\ [](\A c \in Calls :
            /\ pc[c] = "generate"
               => /\ built[c].id = <<c, genCalls[c] + 1>>
                  /\ rnd[Frame(c)].id = built[c].id
                  /\ getstate(rnd[Frame(c)]) = built[c].state
                  /\ genRet[c].attempt <= genCalls[c]
            /\ pc[c] = "verify"
               => /\ genRet[c].attempt = genCalls[c]
                  /\ genRet[c].source = built[c].id
                  /\ genRet[c].index = testcase_index[c]
                  /\ genRet[c].text = testcase[Frame(c)]
                  /\ verSeen[c].attempt < genCalls[c]
            /\ verSeen[c].attempt <= genRet[c].attempt
            /\ outcome[c].kind = "return"
               => /\ genRet[c].attempt = genCalls[c]
                  /\ verSeen[c].attempt = genCalls[c]
                  /\ outcome[c].value =
                        <<genRet[c].text, AnswerOf(testcase_index[c], genRet[c].text)>>)
    /\ [][\A c \in Calls :
            verCalls'[c] # verCalls[c]
            => /\ pc[c] = "verify"
               /\ genRet[c].attempt = genCalls[c]
               /\ verCalls'[c] = verCalls[c] + 1
               /\ genCalls'[c] = genCalls[c]
               /\ verSeen'[c] = [attempt |-> genRet[c].attempt,
                                 index |-> testcase_index[c],
                                 text |-> genRet[c].text]]_vars
    /\ [][\A c \in Calls :
            genCalls'[c] # genCalls[c]
            => /\ pc[c] = "generate"
               /\ genCalls'[c] = genCalls[c] + 1
               /\ genArg'[c] = built[c].id
               /\ verCalls'[c] = verCalls[c]]_vars

\* C18 witness: the verifier turned down the even text of the first attempt
\* and the call returned the odd text of the second.
C18_Witness ==
    \E c \in Calls :
        /\ verifier = "odd_only"
        /\ outcome[c].kind = "return"
        /\ genCalls[c] = 2
        /\ verCalls[c] = 2
        /\ outcome[c].value[1] = <<testcase_index[c], 3>>
        /\ testcase_index[c] = 1

\* C19: retry_count of a call is the number of its attempts that raised
\* TestcaseInvalidError; a step raises it by one exactly when an attempt is
\* rejected and leaves it alone otherwise; the generator has been invoked
\* retry_count or retry_count + 1 times, the verifier no more often than the
\* generator.
C19_RetryCountCountsRejections ==
    /\ [](\A c \in Calls :
            /\ retry_count[Frame(c)] = rejected[c]
            /\ genCalls[c] \in {retry_count[Frame(c)], retry_count[Frame(c)] + 1}
            /\ verCalls[c] <= genCalls[c]
            /\ pc[c] \in {"idle", "loop", "generate"}
               => genCalls[c] = retry_count[Frame(c)]
            /\ (Ended(c) /\ outcome[c].kind # "RuntimeError")
               => genCalls[c] = retry_count[Frame(c)] + 1)
    /\ [][\A c \in Calls :
            /\ retry_count'[Frame(c)] \in {retry_count[Frame(c)],
                                          retry_count[Frame(c)] + 1}
            /\ retry_count'[Frame(c)] = retry_count[Frame(c)] + 1
               <=> rejected'[c] = rejected[c] + 1
            /\ (pc'[c] = "done" /\ pc[c] # "done")
               => retry_count'[Frame(c)] = retry_count[Frame(c)]]_vars

\* C19 witness: one attempt rejected by the generator, one by the verifier,
\* then a fatal error in the third.
C19_Witness ==
    \E c \in Calls :
        /\ Ended(c)
        /\ outcome[c].kind = "GeneratorRuntimeError"
        /\ retry_count[Frame(c)] = 2
        /\ genCalls[c] = 3
        /\ verCalls[c] = 2

\* C20: when a call ends in exhaustion with retry_limit >= 0, the number of
\* attempts in the message is the number of generator invocations the call
\* made.
C20_ExhaustionReportsAttemptsMade ==
    \A c \in Calls :
        (Ended(c) /\ outcome[c].kind = "RuntimeError" /\ retry_limit >= 0)
        => outcome[c].attempt = genCalls[c]

\* C20 witness: exhaustion after two attempts, one of which never reached the
\* verifier.
C20_Witness ==
    \E c \in Calls :
        /\ Ended(c)
        /\ outcome[c].kind = "RuntimeError"
        /\ retry_limit = 2
        /\ genCalls[c] = 2
        /\ verCalls[c] = 1

====
